---- MODULE Spec2Model ----
(***************************************************************************)
(* Model of seabird.utils.load_rule: the rule-based CNV format detector.   *)
(* Strings are sequences of one-character strings; a rule file is a record *)
(* describing what json.loads and re.compile make of it; each load_rule    *)
(* call is a process that walks the code line by line.                     *)
(***************************************************************************)
EXTENDS Integers, Sequences, FiniteSets, TLC

\* ------------------------------------------------------------------ bounds
MaxEntries == 3
NCalls == 2

Calls == 1..NCalls

\* ----------------------------------------------------------------- strings
\* str.startswith
StartsWith(s, p) == Len(s) >= Len(p) /\ SubSeq(s, 1, Len(p)) = p

\* str.endswith
EndsWith(s, p) == Len(s) >= Len(p) /\ SubSeq(s, Len(s) - Len(p) + 1, Len(s)) = p

\* ord(): the code point of the characters that occur in file names
Ord(ch) ==
  CASE ch = "." -> 46
    [] ch = "0" -> 48
    [] ch = "1" -> 49
    [] ch = "2" -> 50
    [] ch = "a" -> 97
    [] ch = "c" -> 99
    [] ch = "e" -> 101
    [] ch = "f" -> 102
    [] ch = "j" -> 106
    [] ch = "m" -> 109
    [] ch = "n" -> 110
    [] ch = "o" -> 111
    [] ch = "r" -> 114
    [] ch = "s" -> 115
    [] ch = "t" -> 116
    [] ch = "v" -> 118
    [] ch = "x" -> 120

\* the < of two paths of one directory: their names compared code point by
\* code point, a proper prefix first
RECURSIVE LexLess(_, _)
LexLess(a, b) ==
  IF b = <<>> THEN FALSE
  ELSE IF a = <<>> THEN TRUE
  ELSE IF Head(a) = Head(b) THEN LexLess(Tail(a), Tail(b))
  ELSE Ord(Head(a)) < Ord(Head(b))

Cnv == <<"c", "n", "v">>
DotJson == <<".", "j", "s", "o", "n">>

\* a filter on the suffix alone
IsRuleFile_anyjson(name) == EndsWith(name, DotJson)

\* the filter of the generator handed to sorted()
IsRuleFile(name) == StartsWith(name, Cnv) /\ EndsWith(name, DotJson)

\* sorted(): insertion of one path into an ascending list
RECURSIVE Insert(_, _)
Insert(x, s) ==
  IF s = <<>> THEN <<x>>
  ELSE IF LexLess(x, Head(s)) THEN <<x>> \o s
  ELSE <<Head(s)>> \o Insert(x, Tail(s))

\* the list left in the order of enumeration
SortNames_unsorted(s) == s

RECURSIVE SortNames(_)
SortNames(s) == IF s = <<>> THEN <<>> ELSE Insert(Head(s), SortNames(Tail(s)))

\* rule_files: the selected entries of one enumeration of the directory, sorted
RuleFiles(enum) == SortNames(SelectSeq(enum, IsRuleFile))

\* ---------------------------------------------------------------- patterns
\* A pattern text is a token (a sequence of character classes) that is taken
\* once or, with rep, one or more times, optionally inside a named group the
\* rule author wrote: (?P<grp>(?:tok)+).  The class WS stands for unescaped
\* white space in the pattern text.
WS == {" "}
NoPat == [tok |-> <<>>, rep |-> FALSE, grp |-> ""]

\* one factor of the regex string built by load_rule: a pattern text of the
\* rule, wrapped or not in a named group and in (?: )+
Piece(outer, pat, plus) == [outer |-> outer, pat |-> pat, plus |-> plus]

\* regex = header + sep + data
RegexWithSep(rule) ==
  << Piece("", rule.header, FALSE), Piece("", rule.sep, FALSE), Piece("", rule.data, FALSE) >>

\* the header text left without its named group
RegexNoSep_unnamed(rule) ==
  << Piece("", rule.header, FALSE), Piece("data", rule.data, TRUE) >>

\* the data text taken once, without (?: )+
RegexNoSep_once(rule) ==
  << Piece("header", rule.header, FALSE), Piece("data", rule.data, FALSE) >>

\* regex = "(?P<header>" + header + ")" "(?P<data>(?:" + data + ")+)"
RegexNoSep(rule) ==
  << Piece("header", rule.header, FALSE), Piece("data", rule.data, TRUE) >>

\* the if "sep" in rule ... else ... that builds the parsing regex
BuildRegex(rule) == IF "sep" \in rule.keys THEN RegexWithSep(rule) ELSE RegexNoSep(rule)

\* the named groups one factor defines, outermost first
PieceNames(pc) ==
  (IF pc.outer = "" THEN <<>> ELSE <<pc.outer>>) \o (IF pc.pat.grp = "" THEN <<>> ELSE <<pc.pat.grp>>)

RECURSIVE GroupNames(_)
GroupNames(regex) ==
  IF regex = <<>> THEN <<>> ELSE PieceNames(Head(regex)) \o GroupNames(Tail(regex))

\* re.compile raises re.error when a group name is defined twice
CompileFails(regex) ==
  LET names == GroupNames(regex)
  IN  \E i, j \in 1..Len(names) : i < j /\ names[i] = names[j]

\* re.VERBOSE: white space in the pattern text is not part of the pattern
StripVerbose(tok) == SelectSeq(tok, LAMBDA a : a # WS)

\* re.compile(regex, re.VERBOSE): one part per factor, with the groups that
\* capture it
Compile(regex) ==
  [ i \in 1..Len(regex) |->
      [ tok   |-> StripVerbose(regex[i].pat.tok),
        rep   |-> regex[i].pat.rep \/ regex[i].plus,
        names |-> { PieceNames(regex[i])[k] : k \in 1..Len(PieceNames(regex[i])) } ] ]

\* the token matches the text at position p
TokAt(tok, text, p) ==
  /\ p + Len(tok) - 1 <= Len(text)
  /\ \A i \in 1..Len(tok) : text[p + i - 1] \in tok[i]

\* how many times in a row the token matches from position p
RECURSIVE Reps(_, _, _)
Reps(tok, text, p) ==
  IF TokAt(tok, text, p) THEN 1 + Reps(tok, text, p + Len(tok)) ELSE 0

NoMatch == [ok |-> FALSE, start |-> 0, ends |-> <<>>]

\* the backtracking matcher: parts k.. of the grammar matched from position
\* pos, every repetition greedy, giving up repetitions only when what follows
\* cannot match; ends[i] is the position after part k+i-1
RECURSIVE MatchAt(_, _, _, _)
MatchAt(g, k, pos, text) ==
  IF k > Len(g) THEN [ok |-> TRUE, start |-> pos, ends |-> <<>>]
  ELSE
    LET L     == Len(g[k].tok)
        \* an empty token matches the empty string, once
        avail == IF L = 0 THEN 1 ELSE Reps(g[k].tok, text, pos)
        maxn  == IF g[k].rep \/ avail = 0 THEN avail ELSE 1
        cands == { n \in 1..maxn : MatchAt(g, k + 1, pos + n * L, text).ok }
    IN  IF cands = {} THEN NoMatch
        ELSE LET n == CHOOSE m \in cands : \A o \in cands : o <= m
             IN  [ ok    |-> TRUE,
                   start |-> pos,
                   ends  |-> <<pos + n * L>> \o MatchAt(g, k + 1, pos + n * L, text).ends ]

\* content_re.search(raw_text): the match at the leftmost position that has one
Search(g, text) ==
  LET starts == { s \in 1..(Len(text) + 1) : MatchAt(g, 1, s, text).ok }
  IN  IF starts = {} THEN NoMatch
      ELSE MatchAt(g, 1, CHOOSE s \in starts : \A o \in starts : s <= o, text)

\* where part i of a match begins
PartStart(m, i) == IF i = 1 THEN m.start ELSE m.ends[i - 1]

\* match.groupdict(): every named group with the substring it captured
GroupDict(g, m, text) ==
  LET names == UNION { g[i].names : i \in 1..Len(g) }
  IN  [ n \in names |->
          LET i == CHOOSE j \in 1..Len(g) : n \in g[j].names
          IN  SubSeq(text, PartStart(m, i), m.ends[i] - 1) ]

\* ------------------------------------------------- rule files and raw texts
Digit == {"1", "2", "3"}

PatH == [tok |-> <<{"H"}, Digit>>, rep |-> TRUE, grp |-> ""]
PatHv == [tok |-> <<{"H"}, WS, Digit>>, rep |-> TRUE, grp |-> ""]
PatD == [tok |-> <<{"D"}, Digit>>, rep |-> FALSE, grp |-> ""]
PatAny == [tok |-> <<{"H", "D"}, Digit>>, rep |-> TRUE, grp |-> ""]
PatE == [tok |-> <<{"E"}>>, rep |-> FALSE, grp |-> ""]
PatHg == [tok |-> <<{"H"}, Digit>>, rep |-> TRUE, grp |-> "header"]
PatDg == [tok |-> <<{"D"}, Digit>>, rep |-> TRUE, grp |-> "data"]

\* what json.loads makes of a file: json is FALSE when the text is not JSON,
\* keys are the fields of the record
RuleRec(keys, h, s, d) == [json |-> TRUE, keys |-> keys, header |-> h, sep |-> s, data |-> d]

RuleHD == RuleRec({"header", "data"}, PatHv, NoPat, PatD)
RuleAny == RuleRec({"header", "data"}, PatAny, NoPat, PatD)
RuleSep == RuleRec({"header", "sep", "data"}, PatHg, PatE, PatDg)
RuleSepBare == RuleRec({"header", "sep", "data"}, PatH, PatE, PatD)
RuleDup == RuleRec({"header", "data"}, PatHg, NoPat, PatD)
NoHeader == RuleRec({"data"}, NoPat, NoPat, PatD)
BadJson == [json |-> FALSE, keys |-> {}, header |-> NoPat, sep |-> NoPat, data |-> NoPat]

ContentPool == {RuleHD, RuleAny, RuleSep, RuleSepBare, RuleDup, NoHeader, BadJson}

Cnv10Json == <<"c", "n", "v", "1", "0", ".", "j", "s", "o", "n">>
Cnv2Json == <<"c", "n", "v", "2", ".", "j", "s", "o", "n">>
CnvJson == <<"c", "n", "v", ".", "j", "s", "o", "n">>
RefnamesJson == <<"r", "e", "f", "n", "a", "m", "e", "s", ".", "j", "s", "o", "n">>
Cnv2Txt == <<"c", "n", "v", "2", ".", "t", "x", "t">>

NamePool == {Cnv10Json, Cnv2Json, CnvJson, RefnamesJson, Cnv2Txt}

TextExample == <<"H", "1", "H", "2", "D", "1", "D", "2", "D", "3">>
TextNoise == <<"x", "D", "1", "D", "2">>
TextSep == <<"x", "H", "1", "E", "D", "1", "D", "2">>
TextNone == <<"H", "1">>

TextPool == {TextExample, TextNoise, TextSep, TextNone}

\* the directories with at most MaxEntries entries
Dirs(names, contents) ==
  UNION { [D -> contents] : D \in { E \in SUBSET names : Cardinality(E) <= MaxEntries } }

\* the orders in which iterdir() may yield the entries
Enumerations(D) ==
  { s \in [1..Cardinality(D) -> D] : \A i, j \in 1..Cardinality(D) : i # j => s[i] # s[j] }

\* ---------------------------------------------------------------- outcomes
NoGroups == [n \in {} |-> <<>>]

\* a result with the captures alone
Return_bare(rule, groups) ==
  [kind |-> "return", exc |-> "", tag |-> "", rule |-> BadJson, groups |-> groups]

\* return rule, match.groupdict()
Return(rule, groups) ==
  [kind |-> "return", exc |-> "", tag |-> "", rule |-> rule, groups |-> groups]

Raise(exc, tag) ==
  [kind |-> "raise", exc |-> exc, tag |-> tag, rule |-> BadJson, groups |-> NoGroups]

Pending == [kind |-> "none", exc |-> "", tag |-> "", rule |-> BadJson, groups |-> NoGroups]

\* the exception of resources.files left to propagate
LocateFailure_uncaught == Raise("ModuleNotFoundError", "")

\* raise CNVError(tag="noparsingrule") of the except clause
LocateFailure == Raise("CNVError", "noparsingrule")

\* a CNVError without the tag
NoRuleMatched_untagged == Raise("CNVError", "")

\* raise CNVError(tag="noparsingrule") after the loop
NoRuleMatched == Raise("CNVError", "noparsingrule")

\* missing fields read as empty patterns
HasFields_lenient(rule) == TRUE

\* rule["header"], rule["data"] raise KeyError on a record without the field
HasFields(rule) == {"header", "data"} \subseteq rule.keys

\* -------------------------------------------- load_rule as one function
\* the for loop over rule_files, from the first of names on
RECURSIVE TryRules(_, _, _)
TryRules(names, fs, text) ==
  IF names = <<>> THEN NoRuleMatched
  ELSE
    LET r == fs[Head(names)]
    IN  IF ~r.json THEN Raise("JSONDecodeError", "")
        ELSE IF ~HasFields(r) THEN Raise("KeyError", "")
        ELSE IF CompileFails(BuildRegex(r)) THEN Raise("re.error", "")
        ELSE
          LET g == Compile(BuildRegex(r))
              m == Search(g, text)
          IN  IF m.ok THEN Return(r, GroupDict(g, m, text))
              ELSE TryRules(Tail(names), fs, text)

\* one of the orders in which iterdir() may yield the entries
RECURSIVE SomeEnumeration(_)
SomeEnumeration(D) ==
  IF D = {} THEN <<>>
  ELSE LET x == CHOOSE y \in D : TRUE IN <<x>> \o SomeEnumeration(D \ {x})

\* a whole call of load_rule(text) on a storage (package found, directory
\* found, files); the enumeration order is whatever iterdir yields
LoadRule(pkg, dir, fs, text) ==
  IF ~pkg THEN LocateFailure
  ELSE IF ~dir THEN Raise("FileNotFoundError", "")
  ELSE TryRules(RuleFiles(SomeEnumeration(DOMAIN fs)), fs, text)

\* ------------------------------------------------------------------- state
VARIABLES
  pkgOK,       \* resources.files("seabird") finds the package
  dirOK,       \* the rules directory exists and can be listed
  files,       \* the rules directory: file name -> what json.loads makes of it
  callers,     \* the calls that may be made
  inputs,      \* the raw texts they may pass
  pc,          \* where each call of load_rule is
  raw_text,    \* its argument
  rule_files,  \* its sorted list of selected paths
  idx,         \* the position of its for loop in rule_files
  rule,        \* the record of the file it read last
  regex,       \* the regex it built last
  content_re,  \* the grammar it compiled last
  match,       \* the result of its last search
  outcome,     \* what it returned or raised
  read_log,    \* the files it has read, in order
  tried        \* the files whose grammar it has applied, in order

vars == << pkgOK, dirOK, files, callers, inputs, pc, raw_text, rule_files, idx, rule,
           regex, content_re, match, outcome, read_log, tried >>

storage == << pkgOK, dirOK, files, callers, inputs >>

InitCalls ==
  /\ pc = [c \in Calls |-> "idle"]
  /\ raw_text = [c \in Calls |-> <<>>]
  /\ rule_files = [c \in Calls |-> <<>>]
  /\ idx = [c \in Calls |-> 0]
  /\ rule = [c \in Calls |-> BadJson]
  /\ regex = [c \in Calls |-> <<>>]
  /\ content_re = [c \in Calls |-> <<>>]
  /\ match = [c \in Calls |-> NoMatch]
  /\ outcome = [c \in Calls |-> Pending]
  /\ read_log = [c \in Calls |-> <<>>]
  /\ tried = [c \in Calls |-> <<>>]

\* a storage: the package missing, the rules directory missing, or a directory
\* of files
InitStorage(names, contents) ==
  \/ /\ pkgOK = FALSE /\ dirOK = FALSE /\ files = NoGroups
  \/ /\ pkgOK = TRUE /\ dirOK = FALSE /\ files = NoGroups
  \/ /\ pkgOK = TRUE /\ dirOK = TRUE /\ files \in Dirs(names, contents)

\* one call at a time on any storage
Init == InitStorage(NamePool, ContentPool) /\ callers = {1} /\ inputs = TextPool /\ InitCalls

\* the caller invokes load_rule(t)
Call(c, t) ==
  /\ c \in callers
  /\ t \in inputs
  /\ pc[c] = "idle"
  /\ raw_text' = [raw_text EXCEPT ![c] = t]
  /\ pc' = [pc EXCEPT ![c] = "locate"]
  /\ UNCHANGED << storage, rule_files, idx, rule, regex, content_re, match,
                  outcome, read_log, tried >>

\* the call ends raising
Fail(c, o) ==
  /\ outcome' = [outcome EXCEPT ![c] = o]
  /\ pc' = [pc EXCEPT ![c] = "done"]

\* try: rules_root = resources.files("seabird").joinpath("rules")
\* except (ModuleNotFoundError, FileNotFoundError): raise CNVError
Locate(c) ==
  /\ pc[c] = "locate"
  /\ IF pkgOK
       THEN pc' = [pc EXCEPT ![c] = "list"] /\ UNCHANGED outcome
       ELSE Fail(c, LocateFailure)
  /\ UNCHANGED << storage, raw_text, rule_files, idx, rule, regex, content_re,
                  match, read_log, tried >>

\* rule_files = sorted(p for p in rules_root.iterdir() if ...); iterdir raises
\* FileNotFoundError outside the try when the directory does not exist
ListRules(c) ==
  /\ pc[c] = "list"
  /\ IF dirOK
       THEN /\ \E enum \in Enumerations(DOMAIN files) :
                 rule_files' = [rule_files EXCEPT ![c] = RuleFiles(enum)]
            /\ idx' = [idx EXCEPT ![c] = 1]
            /\ pc' = [pc EXCEPT ![c] = "loop"]
            /\ UNCHANGED outcome
       ELSE /\ Fail(c, Raise("FileNotFoundError", ""))
            /\ UNCHANGED << rule_files, idx >>
  /\ UNCHANGED << storage, raw_text, rule, regex, content_re, match, read_log, tried >>

\* for rule_path in rule_files: rule = json.loads(rule_path.read_text(...))
ReadRule(c) ==
  /\ pc[c] = "loop"
  /\ idx[c] <= Len(rule_files[c])
  /\ LET name == rule_files[c][idx[c]]
     IN  /\ read_log' = [read_log EXCEPT ![c] = Append(@, name)]
         /\ IF files[name].json
              THEN /\ rule' = [rule EXCEPT ![c] = files[name]]
                   /\ pc' = [pc EXCEPT ![c] = "build"]
                   /\ UNCHANGED outcome
              ELSE /\ Fail(c, Raise("JSONDecodeError", ""))
                   /\ UNCHANGED rule
  /\ UNCHANGED << storage, raw_text, rule_files, idx, regex, content_re, match, tried >>

\* the loop is exhausted: raise CNVError(tag="noparsingrule")
Exhausted(c) ==
  /\ pc[c] = "loop"
  /\ idx[c] > Len(rule_files[c])
  /\ Fail(c, NoRuleMatched)
  /\ UNCHANGED << storage, raw_text, rule_files, idx, rule, regex, content_re,
                  match, read_log, tried >>

\* if "sep" in rule: regex = ... else: regex = ...
Build(c) ==
  /\ pc[c] = "build"
  /\ IF HasFields(rule[c])
       THEN /\ regex' = [regex EXCEPT ![c] = BuildRegex(rule[c])]
            /\ pc' = [pc EXCEPT ![c] = "compile"]
            /\ UNCHANGED outcome
       ELSE /\ Fail(c, Raise("KeyError", ""))
            /\ UNCHANGED regex
  /\ UNCHANGED << storage, raw_text, rule_files, idx, rule, content_re, match,
                  read_log, tried >>

\* the compiled grammar kept in one place shared by all calls
StoreGrammar_global(c, g) == [d \in Calls |-> g]

\* content_re is a local of the call
StoreGrammar(c, g) == [content_re EXCEPT ![c] = g]

\* content_re = re.compile(regex, re.VERBOSE)
CompileRegex(c) ==
  /\ pc[c] = "compile"
  /\ IF CompileFails(regex[c])
       THEN /\ Fail(c, Raise("re.error", ""))
            /\ UNCHANGED content_re
       ELSE /\ content_re' = StoreGrammar(c, Compile(regex[c]))
            /\ pc' = [pc EXCEPT ![c] = "search"]
            /\ UNCHANGED outcome
  /\ UNCHANGED << storage, raw_text, rule_files, idx, rule, regex, match, read_log, tried >>

\* a loop that steps over every other path
AdvanceIdx_skip(c) == [idx EXCEPT ![c] = @ + 2]

\* the for loop moves on to the next path
AdvanceIdx(c) == [idx EXCEPT ![c] = @ + 1]

\* match = content_re.search(raw_text); if match: return rule, match.groupdict()
SearchText(c) ==
  /\ pc[c] = "search"
  /\ LET m == Search(content_re[c], raw_text[c])
     IN  /\ match' = [match EXCEPT ![c] = m]
         /\ tried' = [tried EXCEPT ![c] = Append(@, rule_files[c][idx[c]])]
         /\ IF m.ok
              THEN /\ outcome' = [outcome EXCEPT ![c] =
                                    Return(rule[c], GroupDict(content_re[c], m, raw_text[c]))]
                   /\ pc' = [pc EXCEPT ![c] = "done"]
                   /\ UNCHANGED idx
              ELSE /\ idx' = AdvanceIdx(c)
                   /\ pc' = [pc EXCEPT ![c] = "loop"]
                   /\ UNCHANGED outcome
  /\ UNCHANGED << storage, raw_text, rule_files, rule, regex, content_re, read_log >>

Next ==
  \/ \E c \in Calls, t \in TextPool : Call(c, t)
  \/ \E c \in Calls : Locate(c)
  \/ \E c \in Calls : ListRules(c)
  \/ \E c \in Calls : ReadRule(c)
  \/ \E c \in Calls : Exhausted(c)
  \/ \E c \in Calls : Build(c)
  \/ \E c \in Calls : CompileRegex(c)
  \/ \E c \in Calls : SearchText(c)

Spec == Init /\ [][Next]_vars

\* concurrent calls on a small storage
ConcNames == {Cnv10Json, Cnv2Json}
ConcContents == {RuleHD, RuleAny, RuleDup, BadJson}
ConcTexts == {TextExample, TextNoise, TextNone}

InitConc ==
  InitStorage(ConcNames, ConcContents) /\ callers = Calls /\ inputs = ConcTexts /\ InitCalls

SpecConc == InitConc /\ [][Next]_vars

\* ------------------------------------------------------------- properties
Done(c) == pc[c] = "done"
Returned(c) == Done(c) /\ outcome[c].kind = "return"
Available == pkgOK /\ dirOK

\* the file whose grammar matched, for a call that returned
Winner(c) == rule_files[c][idx[c]]

NameIsCnvJson(n) ==
  /\ Len(n) >= 8
  /\ <<n[1], n[2], n[3]>> = <<"c", "n", "v">>
  /\ <<n[Len(n) - 4], n[Len(n) - 3], n[Len(n) - 2], n[Len(n) - 1], n[Len(n)]>>
       = <<".", "j", "s", "o", "n">>

Selected == { n \in DOMAIN files : NameIsCnvJson(n) }

\* the file is not JSON or lacks a required field
Malformed(r) == ~r.json \/ "header" \notin r.keys \/ "data" \notin r.keys

\* no grammar can be made of the file
Broken(r) == Malformed(r) \/ CompileFails(BuildRegex(r))

\* the grammar of the file matches the text
Fits(r, text) == ~Broken(r) /\ Search(Compile(BuildRegex(r)), text).ok

Matching(text) == { n \in Selected : Fits(files[n], text) }

Least(S) == CHOOSE n \in S : \A o \in S : o = n \/ LexLess(n, o)

NoParsingRule ==
  [kind |-> "raise", exc |-> "CNVError", tag |-> "noparsingrule", rule |-> BadJson,
   groups |-> NoGroups]

\* C1 (as claimed): whenever some selected rule matches raw_text, load_rule
\* returns the result of the matching rule with the smallest file name.
C1_Original ==
  \A c \in Calls :
    (Done(c) /\ Available /\ Matching(raw_text[c]) # {}) =>
       /\ outcome[c].kind = "return"
       /\ Winner(c) = Least(Matching(raw_text[c]))

\* C1 (amended): whenever some selected rule matches raw_text and no selected
\* file named before the smallest matching one is malformed or fails to
\* compile, load_rule returns the result of that smallest matching rule; and a
\* result, whenever there is one, is that of the smallest matching rule, for
\* every enumeration order of the directory.
C1_FirstMatchWins ==
  \A c \in Calls :
    (Done(c) /\ Available) =>
      LET M == Matching(raw_text[c])
      IN  /\ (M # {} /\ \A n \in Selected : LexLess(n, Least(M)) => ~Broken(files[n]))
               => /\ outcome[c].kind = "return"
                  /\ Winner(c) = Least(M)
                  /\ outcome[c].rule = files[Least(M)]
          /\ outcome[c].kind = "return" => (M # {} /\ Winner(c) = Least(M))

C1_Witness ==
  \E c \in Calls :
    /\ Returned(c)
    /\ Cardinality(Matching(raw_text[c])) >= 2
    /\ Winner(c) = Cnv10Json
    /\ Cnv2Json \in Matching(raw_text[c])

\* C2 (as claimed): when no selected rule's grammar matches raw_text, load_rule
\* fails with CNVError tagged "noparsingrule".
C2_Original ==
  \A c \in Calls :
    (Done(c) /\ Available /\ Matching(raw_text[c]) = {}) => outcome[c] = NoParsingRule

\* C2 (amended): when every selected rule file is well-formed and compiles and
\* none of their grammars matches raw_text, load_rule fails with CNVError
\* tagged "noparsingrule" and returns nothing; an empty selected set fails
\* with the same condition.
C2_NoRuleMatched ==
  \A c \in Calls :
    (Done(c) /\ Available /\ Matching(raw_text[c]) = {}
       /\ \A n \in Selected : ~Broken(files[n]))
      => outcome[c] = NoParsingRule

C2_Witness ==
  \E c \in Calls :
    /\ Done(c) /\ Available
    /\ Selected # {}
    /\ \A n \in Selected : ~Broken(files[n]) /\ ~Fits(files[n], raw_text[c])
    /\ outcome[c] = NoParsingRule

C4_Original ==
  \A c \in Calls : (Done(c) /\ ~Available) => outcome[c] # NoParsingRule

\* C4 (amended): when the package holding the rules cannot be located,
\* load_rule fails with CNVError tagged "noparsingrule", the very condition of
\* "no rule matched"; only when the package is located and the rules
\* directory cannot be listed does the failure differ: a FileNotFoundError,
\* which is no CNVError and carries no tag.
C4_UnavailableStorage ==
  \A c \in Calls :
    Done(c) =>
      /\ ~pkgOK => outcome[c] = NoParsingRule
      /\ (pkgOK /\ ~dirOK) =>
           /\ outcome[c].kind = "raise"
           /\ outcome[c].exc = "FileNotFoundError"
           /\ outcome[c] # NoParsingRule

C4_Witness == \E c \in Calls : Done(c) /\ ~pkgOK /\ outcome[c] = NoParsingRule

\* the directory without the file n, and with the file n holding k
Without(fs, n) == [x \in (DOMAIN fs) \ {n} |-> fs[x]]
WithFile(fs, n, k) == [x \in (DOMAIN fs) \cup {n} |-> IF x = n THEN k ELSE fs[x]]

\* C5: load_rule reads only entries whose name starts with "cnv" and ends with
\* ".json"; refnames.json is never read or tried, and neither its presence
\* nor its content changes the outcome.
C5_OnlyRuleFilesRead ==
  \A c \in Calls :
    /\ \A i \in 1..Len(read_log[c]) : NameIsCnvJson(read_log[c][i])
    /\ \A i \in 1..Len(tried[c]) : NameIsCnvJson(tried[c][i])
    /\ \A i \in 1..Len(rule_files[c]) : NameIsCnvJson(rule_files[c][i])
    /\ (Done(c) /\ Available) =>
         /\ outcome[c] = LoadRule(TRUE, TRUE, Without(files, RefnamesJson), raw_text[c])
         /\ \A k \in ContentPool :
              outcome[c] = LoadRule(TRUE, TRUE, WithFile(files, RefnamesJson, k), raw_text[c])

C5_Witness ==
  \E c \in Calls :
    /\ Done(c) /\ Available
    /\ RefnamesJson \in DOMAIN files
    /\ Fits(files[RefnamesJson], raw_text[c])
    /\ Selected # {}
    /\ outcome[c] = NoParsingRule

OwnNames(r) == { r.header.grp, r.sep.grp, r.data.grp } \ {""}

OtherRuleNames(n) == { o \in NamePool : NameIsCnvJson(o) /\ o # n }

\* the directory holding the one file n with content k
OneFile(n, k) == [x \in {n} |-> k]

\* C7 (as claimed): a result identifies the rule that won by its storage
\* name: the same rule stored under another name gives a different result.
C7_Original ==
  \A c \in Calls :
    Returned(c) =>
      \A o \in OtherRuleNames(Winner(c)) :
        LoadRule(TRUE, TRUE, OneFile(o, files[Winner(c)]), raw_text[c]) # outcome[c]

\* C7 (amended): a result carries the parsed record of the winning rule file
\* (header, data and sep when present) with the captures, and not its storage
\* name: the same record stored under another name gives the identical result.
C7_ResultCarriesRecord ==
  \A c \in Calls :
    Returned(c) =>
      /\ outcome[c].rule = files[Winner(c)]
      /\ \A o \in OtherRuleNames(Winner(c)) :
           LoadRule(TRUE, TRUE, OneFile(o, files[Winner(c)]), raw_text[c]) = outcome[c]

C7_Witness ==
  \E c \in Calls :
    /\ Returned(c)
    /\ Cardinality(Selected) = 2
    /\ \A n \in Selected : files[n] = outcome[c].rule

\* s is one repetition of the token, or one or more when many
IsRun(tok, s, many) ==
  /\ Len(tok) > 0 /\ Len(s) > 0
  /\ Len(s) % Len(tok) = 0
  /\ many \/ Len(s) = Len(tok)
  /\ \A j \in 1..Len(s) : s[j] \in tok[((j - 1) % Len(tok)) + 1]

NonBlank(tok) == SelectSeq(tok, LAMBDA a : a # {" "})

\* C8: for a winning rule without sep, "header" is exactly a substring matched
\* by the header pattern, "data" is the run of one or more consecutive data
\* pattern matches that starts where the header ends, and header followed by
\* data is a contiguous substring of raw_text that unmatched text may precede;
\* "H1H2D1D2D3" with a repeated H-digit header and a D-digit data pattern
\* gives header "H1H2" and data "D1D2D3".
C8_CaptureFidelity ==
  \A c \in Calls :
    (Returned(c) /\ "sep" \notin outcome[c].rule.keys) =>
      LET r  == outcome[c].rule
          h  == outcome[c].groups["header"]
          d  == outcome[c].groups["data"]
          t  == raw_text[c]
          dt == NonBlank(r.data.tok)
      IN  /\ IsRun(NonBlank(r.header.tok), h, r.header.rep)
          /\ IsRun(dt, d, TRUE)
          /\ \E p \in 1..Len(t) :
               /\ p + Len(h) + Len(d) - 1 <= Len(t)
               /\ SubSeq(t, p, p + Len(h) - 1) = h
               /\ SubSeq(t, p + Len(h), p + Len(h) + Len(d) - 1) = d
               /\ p = match[c].start
               \* the run is whole: no further data match follows it
               /\ LET q == p + Len(h) + Len(d)
                  IN  ~(q + Len(dt) - 1 <= Len(t) /\ IsRun(dt, SubSeq(t, q, q + Len(dt) - 1), FALSE))
          /\ (t = TextExample /\ r = RuleHD) =>
               /\ h = <<"H", "1", "H", "2">>
               /\ d = <<"D", "1", "D", "2", "D", "3">>

C8_Witness ==
  \E c \in Calls :
    /\ Returned(c)
    /\ raw_text[c] = TextExample
    /\ outcome[c].rule = RuleHD
    /\ outcome[c].groups["header"] = <<"H", "1", "H", "2">>
    /\ outcome[c].groups["data"] = <<"D", "1", "D", "2", "D", "3">>

\* C9: load_rule is stateless: calls running concurrently or one after another,
\* in any interleaving, each end with the outcome the same call has when run
\* alone, and no step of a call changes the stored rules or the input text of
\* a call.
C9_Stateless ==
  [][ /\ files' = files /\ pkgOK' = pkgOK /\ dirOK' = dirOK
      /\ \A c \in Calls :
           /\ pc[c] # "idle" => raw_text'[c] = raw_text[c]
           /\ pc'[c] = "done" =>
                outcome'[c] = LoadRule(pkgOK', dirOK', files', raw_text'[c]) ]_vars

C9_Witness ==
  \E c, d \in Calls :
    /\ c # d
    /\ Returned(c) /\ Done(d)
    /\ raw_text[c] # raw_text[d]
    /\ outcome[c] # outcome[d]
    /\ Len(tried[c]) = 2 /\ Len(read_log[d]) = 2

\* s is strictly ascending in the order of the names
Ascending(s) == \A i, j \in 1..Len(s) : i < j => LexLess(s[i], s[j])

\* C10: within one call the selected rules are read, compiled and applied one
\* at a time in strictly ascending file-name order, each at most once; once a
\* grammar matches the call returns and no later rule is read or applied; a
\* rule is tried only after every earlier rule was tried and did not match.
C10_SequentialShortCircuit ==
  \A c \in Calls :
    /\ Ascending(read_log[c])
    /\ Len(tried[c]) <= Len(read_log[c])
    /\ Len(read_log[c]) <= Len(tried[c]) + 1
    /\ tried[c] = SubSeq(read_log[c], 1, Len(tried[c]))
    \* nothing is skipped: every selected file named before one that was read
    \* was read and applied before it, and did not match
    /\ \A i \in 1..Len(read_log[c]) :
         \A n \in Selected :
           LexLess(n, read_log[c][i]) =>
             /\ \E j \in 1..(i - 1) : read_log[c][j] = n /\ tried[c][j] = n
             /\ ~Fits(files[n], raw_text[c])
    \* after a match nothing more is read or applied
    /\ \A i \in 1..Len(tried[c]) :
         Fits(files[tried[c][i]], raw_text[c]) =>
           /\ i = Len(read_log[c])
           /\ Returned(c)
           /\ Winner(c) = tried[c][i]

C10_Witness ==
  \E c \in Calls :
    /\ Returned(c)
    /\ Len(tried[c]) = 2
    /\ \E n \in Selected : LexLess(Winner(c), n)

====
